---- MODULE Spec2Model ----
(***************************************************************************)
(* Model of the py-qt-kiosk programs.                                      *)
(*                                                                         *)
(*   characters.py  CharacterDisplay: a one second QTimer drives           *)
(*                  _update_countdown, which every CHARACTER_UPDATE_       *)
(*                  INTERVAL // 1000 ticks calls _update_character         *)
(*                  (_check_for_message, then _display_random_character).  *)
(*   clock.py       MainWindow.update_message shows what                   *)
(*                  MessageReader.read_message returns (mtime cache);      *)
(*                  MainWindow.update_clock shows the time of day and what *)
(*                  CountdownTimer.get_time_remaining makes of the time    *)
(*                  left to Config.COUNTDOWN_TARGET.                       *)
(*   hanzi_display.py  main shows the cards of a shuffled copy of the list *)
(*                  in the terminal, one after the other, round and round. *)
(*   discord/test-listen-to-discord.py  on_message writes message.txt.     *)
(*                                                                         *)
(* One process runs one of the programs: `program` says which.             *)
(*                                                                         *)
(* Spec: message.txt is whatever other processes make of it.  clock.py     *)
(* compares the file with what it saw before, so the file is state there;  *)
(* characters.py opens it afresh in every refresh and other processes      *)
(* rewrite it in between, so each refresh takes the file as it finds it as *)
(* an input.  read_message looks at message.txt alone and                  *)
(* get_time_remaining at the system clock alone, and neither touches what  *)
(* the other shows, so a run of clock.py varies one part of its            *)
(* environment: message.txt (the ticks of the clock timer are then left    *)
(* out, `times` is empty), or the system clock and the network             *)
(* (message.txt then stays absent).                                        *)
(*                                                                         *)
(* SpecRelay: the kiosk beside the chat relay, which is then the only      *)
(* writer of message.txt.                                                  *)
(*                                                                         *)
(* Text is a sequence of characters; a literal of the source that is never *)
(* taken apart (a placeholder, a default label) is a sequence of one       *)
(* element holding the whole literal.                                      *)
(***************************************************************************)
EXTENDS Integers, Sequences, FiniteSets

VARIABLES
    program,            \* which script this process runs
    pc,                 \* "start": before main(); "running": in app.exec_(),
                        \* or in the loop of hanzi_display.main; "exited":
                        \* ended by an exception; "closed": ended by the
                        \* close of the window; "returned": main returned
    flashcards_json,    \* the document in flashcards.json (environment, fixed)
    message_file,       \* message.txt beside clock.py (environment):
                        \* [kind, content, mtime]
    flashcards,         \* CharacterDisplay.flashcards
    current_index,      \* CharacterDisplay.current_index
    countdown_seconds,  \* CharacterDisplay.countdown_seconds
    countdown_label,    \* CharacterDisplay: n stands for the label text
                        \* f"{n}s"; MainWindow: the label text
    header_label,       \* header_label text (both windows)
    ip_label,           \* ip_label text (both windows)
    clock_label,        \* MainWindow.clock_label text
    times,              \* the instants update_clock can find (environment,
                        \* fixed); empty where the run varies message.txt
    now,                \* QDateTime.currentDateTime() as update_clock last read
                        \* it: the milliseconds from it to the target
    character_label,    \* CharacterDisplay.character_label text
    frame_label,        \* CharacterDisplay.frame_label text
    last_modified,      \* MessageReader._last_modified
    cached_message,     \* MessageReader._cached_message
    shuffled_cards,     \* hanzi_display.main: shuffled_cards, each element the
                        \* position in flashcards of the card it refers to
    card_index,         \* hanzi_display.main: card_index
    shown,              \* history: the cards display_flashcard has shown
    relay,              \* the chat relay's on_message: [pc, content]
    written,            \* history: the texts on_message has written and closed
    ticks,              \* history: timer ticks delivered since construction
    refreshes,          \* history: _update_character calls made by ticks
    event               \* history: what the last handler did

vars == <<program, pc, flashcards_json, message_file, flashcards, current_index,
          countdown_seconds, countdown_label, header_label, ip_label, clock_label,
          times, now, character_label, frame_label, last_modified, cached_message,
          shuffled_cards, card_index, shown, relay, written, ticks, refreshes, event>>

display_vars == <<flashcards, current_index, countdown_seconds, countdown_label,
                  character_label, frame_label, ticks, refreshes>>
reader_vars == <<last_modified, cached_message>>
\* what only update_clock touches, and never CharacterDisplay
clock_vars == <<clock_label, times, now>>
\* the variables of hanzi_display.main's loop
hanzi_vars == <<shuffled_cards, card_index, shown>>
\* the chat relay
relay_vars == <<relay, written>>

----------------------------------------------------------------------------
(* Bounds of the model. *)

\* longest message file content, in characters
MaxLen == 3
\* most elements of the JSON array in flashcards.json
MaxCards == 2
\* modification times of message.txt range over 1..MaxMtime
MaxMtime == 2
\* timer ticks delivered to _update_countdown in one run
MaxTicks == 21
\* cards hanzi_display.main shows in one run
MaxDisplays == 5
\* chat messages the relay takes in one run
MaxMessages == 2
\* update_clock runs at most MaxDays days and a day's remainder away from
\* the target, before it or after it
MaxDays == 1

(* Program constants. *)

\* CHARACTER_UPDATE_INTERVAL, milliseconds
CHARACTER_UPDATE_INTERVAL == 10000
\* the divisor in CHARACTER_UPDATE_INTERVAL // 1000
MsPerSecond == 1000
\* MessageReader.__init__: self._last_modified = 0
InitialLastModified == 0

interval == CHARACTER_UPDATE_INTERVAL \div MsPerSecond

----------------------------------------------------------------------------
(* Text. *)

Alphabet == {"a", " ", "\n"}
Whitespace == {" ", "\n"}

RECURSIVE SeqsUpTo(_, _)
SeqsUpTo(S, n) ==
    IF n = 0 THEN {<<>>}
    ELSE LET shorter == SeqsUpTo(S, n - 1)
         IN  shorter \cup {Append(s, c) : s \in {t \in shorter : Len(t) = n - 1}, c \in S}

Contents == SeqsUpTo(Alphabet, MaxLen)

\* file.readline(): the text up to and including the first newline
RECURSIVE readline(_)
readline(s) ==
    IF s = <<>> THEN <<>>
    ELSE IF Head(s) = "\n" THEN <<"\n">>
    ELSE <<Head(s)>> \o readline(Tail(s))

RECURSIVE lstrip(_)
lstrip(s) ==
    IF s # <<>> /\ Head(s) \in Whitespace THEN lstrip(Tail(s)) ELSE s

RECURSIVE rstrip(_)
rstrip(s) ==
    IF s # <<>> /\ s[Len(s)] \in Whitespace THEN rstrip(SubSeq(s, 1, Len(s) - 1)) ELSE s

\* str.rstrip() in the place of str.strip()
strip_right_only(s) == rstrip(s)

\* str.strip(): leading and trailing whitespace removed
strip(s) == rstrip(lstrip(s))

Digits == <<"0", "1", "2", "3", "4", "5", "6", "7", "8", "9">>

\* str(n) of an int n >= 0, as an f-string renders it
RECURSIVE decimal(_)
decimal(n) ==
    IF n < 10 THEN <<Digits[n + 1]>> ELSE Append(decimal(n \div 10), Digits[(n % 10) + 1])

DEFAULT_HEADER_TEXT == <<>>
CLOCK_HEADER_TEXT == <<"There are no bad pictures - that's just how your face looks sometimes">>
NOT_FOUND_TEXT == <<"Message file not found">>
NO_MESSAGE_TEXT == <<"No message available">>
ErrorText(e) == <<"Error reading message: ", e>>

----------------------------------------------------------------------------
(* message.txt as the readers find it. *)

\* "absent": no such file; "text": decodable content; "denied": open() raises
\* an OSError (permissions, a directory); "undecodable": not UTF-8
TextFile(c, m) == [kind |-> "text", content |-> c, mtime |-> m]
AbsentFile == [kind |-> "absent", content |-> <<>>, mtime |-> 0]
DeniedFile(m) == [kind |-> "denied", content |-> <<>>, mtime |-> m]
UndecodableFile(m) == [kind |-> "undecodable", content |-> <<>>, mtime |-> m]

Mtimes == 1..MaxMtime

FileStates(ms) ==
    {AbsentFile}
        \cup {TextFile(c, m) : c \in Contents, m \in ms}
        \cup {DeniedFile(m) : m \in ms}
        \cup {UndecodableFile(m) : m \in ms}

\* message.txt as a refresh of characters.py can find it (it never looks at
\* the modification time)
MessageFiles == FileStates({1})

\* what open(path, "r", encoding="utf-8") followed by f.readline() does:
\* the exception raised, or "none" and the line read
OpenAndReadline(f) ==
    CASE f.kind = "absent"      -> [raised |-> "FileNotFoundError", line |-> <<>>]
      [] f.kind = "denied"      -> [raised |-> "PermissionError", line |-> <<>>]
      [] f.kind = "undecodable" -> [raised |-> "UnicodeDecodeError", line |-> <<>>]
      [] OTHER                  -> [raised |-> "none", line |-> readline(f.content)]

OSErrors == {"FileNotFoundError", "PermissionError"}

----------------------------------------------------------------------------
(* flashcards.json and the value json.load returns. *)

\* a key the JSON object does not have
Absent == "<absent>"
\* a value that is no string (a JSON number): QLabel.setText raises TypeError
NonString == "<number>"

Card(h, p) == [rec |-> TRUE, Hanzi |-> h, Pinyin |-> p]
\* an array element that is no JSON object (a number, a string)
NonRecord == [rec |-> FALSE, Hanzi |-> Absent, Pinyin |-> Absent]

\* array elements: a card, a card without "Pinyin", a card whose "Pinyin"
\* is a number, and an element that is no JSON object
Elements == {Card("H1", "p1"), Card("H2", Absent), Card("H1", NonString), NonRecord}

JsonList(items) == [kind |-> "list", items |-> items, n |-> Len(items)]
JsonOther(k, n) == [kind |-> k, items |-> <<>>, n |-> n]

\* flashcards.json: missing, not JSON, a JSON array, or another JSON value
\* ({} and {"k": 1}, "x", 1, null)
FlashcardDocs ==
    {JsonOther("missing", 0), JsonOther("invalid", 0)}
        \cup {JsonList(items) : items \in SeqsUpTo(Elements, MaxCards)}
        \cup {JsonOther("dict", 0), JsonOther("dict", 1), JsonOther("str", 1),
              JsonOther("num", 1), JsonOther("null", 0)}

\* bool(v)
truthy(v) == IF v.kind \in {"list", "dict", "str"} THEN v.n > 0 ELSE v.n # 0

\* a draw that never returns the last index
randrange_short(n) == IF n > 1 THEN 0..(n - 2) ELSE {0}

\* random.randrange(n): the values it can return
randrange(n) == 0..(n - 1)

\* dict.get(key, "")
get(field) == IF field = Absent THEN "" ELSE field

----------------------------------------------------------------------------
(* The address of the machine, as the labels get it at construction. *)

\* characters.py get_ip_address: the interface's address, or the fallback
get_ip_address == {"192.168.0.2", "127.0.0.1"}

\* clock.py NetworkUtils.get_ip_address: the interface's address, or the
\* text of the error
NetworkUtils_get_ip_address == {"192.168.0.2", "Error: "}

----------------------------------------------------------------------------
(* The chat relay between two messages. *)

RelayIdle == [pc |-> "idle", content |-> <<>>]

----------------------------------------------------------------------------
(* History: what the last handler did. *)

\* op: "none", "construct", "tick", "update_message", "update_clock", "file",
\* "close", "main", "loop", "relay";
\* refresh: _update_character ran; msg: how the message read went
\* ("none", "shown", "empty", "notfound", "error", "cached"); raised: the
\* exception that left the handler, or "none"; result: the message
\* _check_for_message read, or what read_message returned
Event(op, refresh, msg, raised, result) ==
    [op |-> op, refresh |-> refresh, msg |-> msg, raised |-> raised, result |-> result]

NoEvent == Event("none", FALSE, "none", "none", <<>>)

----------------------------------------------------------------------------
(* characters.py: CharacterDisplay. *)

\* _load_flashcards: self.flashcards stays [] when open or json.load raises
load_flashcards(doc) ==
    IF doc.kind \in {"missing", "invalid"} THEN JsonList(<<>>) ELSE doc

\* a _check_for_message that shows the error instead of keeping the header
check_for_message_shows_error(f, header) ==
    LET r == OpenAndReadline(f)
        message == strip(r.line)
    IN  IF r.raised # "none" THEN ErrorText(r.raised)
        ELSE IF message # <<>> THEN message ELSE header

\* _check_for_message: the header text it leaves.  Every Exception is caught.
check_for_message(f, header) ==
    LET r == OpenAndReadline(f)
        message == strip(r.line)
    IN  IF r.raised = "none" /\ message # <<>> THEN message ELSE header

\* the message _check_for_message read (empty when it read none), and how
\* the read went, for the history
message_read(f) == strip(OpenAndReadline(f).line)

message_outcome(f) ==
    LET r == OpenAndReadline(f)
    IN  CASE r.raised = "FileNotFoundError" -> "notfound"
          [] r.raised # "none"              -> "error"
          [] strip(r.line) = <<>>           -> "empty"
          [] OTHER                          -> "shown"

\* _display_random_character does not pick: `if not self.flashcards: return`,
\* or len() of a number raises
picks(v) == truthy(v) /\ v.kind \in {"list", "dict", "str"}

\* the indices _display_random_character can draw (its own index when it
\* draws none)
pick_set(v, idx) == IF picks(v) THEN randrange(v.n) ELSE {idx}

\* _display_random_character with the draw i: the exception it raises and
\* the fields it leaves
display_random_character(v, i, idx, cl, fl) ==
    LET Out(raised, index, c, f) ==
            [raised |-> raised, current_index |-> index,
             character_label |-> c, frame_label |-> f]
    IN  IF ~truthy(v) THEN Out("none", idx, cl, fl)
        ELSE IF ~picks(v) THEN Out("TypeError", idx, cl, fl)
        ELSE IF v.kind = "dict" THEN Out("KeyError", i, cl, fl)
        ELSE IF v.kind = "str" THEN Out("AttributeError", i, cl, fl)
        ELSE LET card == v.items[i + 1]
             IN  IF ~card.rec THEN Out("AttributeError", i, cl, fl)
                 ELSE IF get(card.Hanzi) = NonString THEN Out("TypeError", i, cl, fl)
                 ELSE IF get(card.Pinyin) = NonString
                      THEN Out("TypeError", i, get(card.Hanzi), fl)
                 ELSE Out("none", i, get(card.Hanzi), get(card.Pinyin))

\* an _update_character that returns at once when there are no flashcards
update_character_skips_empty(v, i, f, idx, header, cl, fl) ==
    LET d == display_random_character(v, i, idx, cl, fl)
    IN  [raised |-> d.raised, current_index |-> d.current_index,
         character_label |-> d.character_label, frame_label |-> d.frame_label,
         header_label |-> IF truthy(v) THEN check_for_message(f, header) ELSE header]

\* _update_character with the file f and the draw i: _check_for_message,
\* then _display_random_character
update_character(v, i, f, idx, header, cl, fl) ==
    LET d == display_random_character(v, i, idx, cl, fl)
    IN  [raised |-> d.raised, current_index |-> d.current_index,
         character_label |-> d.character_label, frame_label |-> d.frame_label,
         header_label |-> check_for_message(f, header)]

\* a tick that refreshes with one second still on the countdown
refresh_due_early(c) == c <= 1

\* _update_countdown: `if self.countdown_seconds <= 0`, after the decrement
refresh_due(c) == c <= 0

\* a refresh tick that leaves the countdown where the decrement put it
countdown_not_reset(raised, c) == c

\* the countdown after a refresh tick: reset unless the refresh raised
countdown_after_refresh(raised, c) == IF raised = "none" THEN interval ELSE c

\* the process after a Qt slot: an exception that leaves the slot ends it
\* (no sys.excepthook is installed, so PyQt5, from 5.5 on, calls qFatal(),
\* which aborts; the f-strings of the source need a Python that only these
\* versions support)
after_slot(raised) == IF raised = "none" THEN "running" ELSE "exited"

\* CharacterDisplay.__init__ (from main): load, labels, timer, first
\* refresh; `files` are the states its refresh can find message.txt in
ConstructFinding(files) ==
    /\ program = "characters" /\ pc = "start"
    /\ LET v == load_flashcards(flashcards_json)
       IN  \E i \in pick_set(v, 0), f \in files :
             LET d == update_character(v, i, f, 0, DEFAULT_HEADER_TEXT, "", "...")
             IN  /\ flashcards' = v
                 /\ countdown_seconds' = interval
                 /\ countdown_label' = interval
                 /\ header_label' = d.header_label
                 /\ current_index' = d.current_index
                 /\ character_label' = d.character_label
                 /\ frame_label' = d.frame_label
                 /\ pc' = IF d.raised = "none" THEN "running" ELSE "exited"
                 /\ event' = Event("construct", TRUE, message_outcome(f), d.raised,
                                   message_read(f))
    /\ ip_label' \in get_ip_address
    /\ UNCHANGED <<program, flashcards_json, message_file, reader_vars, ticks, refreshes,
                   clock_vars>>
    /\ UNCHANGED <<hanzi_vars, relay_vars>>

Construct == ConstructFinding(MessageFiles)

\* _update_countdown, the timer's slot; `files` are the states its refresh
\* can find message.txt in
TickFinding(files) ==
    /\ program = "characters" /\ pc = "running" /\ ticks < MaxTicks
    /\ ticks' = ticks + 1
    /\ countdown_label' = countdown_seconds - 1
    /\ IF refresh_due(countdown_seconds - 1)
       THEN \E i \in pick_set(flashcards, current_index), f \in files :
              LET d == update_character(flashcards, i, f, current_index, header_label,
                                        character_label, frame_label)
              IN  /\ header_label' = d.header_label
                  /\ current_index' = d.current_index
                  /\ character_label' = d.character_label
                  /\ frame_label' = d.frame_label
                  /\ countdown_seconds' =
                        countdown_after_refresh(d.raised, countdown_seconds - 1)
                  /\ refreshes' = refreshes + 1
                  /\ pc' = after_slot(d.raised)
                  /\ event' = Event("tick", TRUE, message_outcome(f), d.raised,
                                    message_read(f))
       ELSE /\ countdown_seconds' = countdown_seconds - 1
            /\ event' = Event("tick", FALSE, "none", "none", <<>>)
            /\ UNCHANGED <<header_label, current_index, character_label, frame_label,
                           refreshes, pc>>
    /\ UNCHANGED <<program, flashcards_json, message_file, flashcards, reader_vars,
                   ip_label, clock_vars>>
    /\ UNCHANGED <<hanzi_vars, relay_vars>>

Tick == TickFinding(MessageFiles)

----------------------------------------------------------------------------
(* clock.py: MessageReader and MainWindow. *)

\* a read_message without the exists() test: stat() raises, the handler
\* turns it into the error text
read_message_without_exists(f, last, cached) ==
    LET Out(msg, raised, result, l, c) ==
            [msg |-> msg, raised |-> raised, result |-> result, last_modified |-> l,
             cached_message |-> c]
        r == OpenAndReadline(f)
    IN  IF f.kind = "absent"
            THEN Out("notfound", "none", ErrorText("FileNotFoundError"), last, cached)
        ELSE IF f.mtime > last
        THEN IF r.raised \in OSErrors
                 THEN Out("error", "none", ErrorText(r.raised), last, cached)
             ELSE IF r.raised # "none" THEN Out("error", r.raised, <<>>, last, cached)
             ELSE LET m == strip(r.line)
                  IN  IF m # <<>> THEN Out("shown", "none", m, f.mtime, m)
                      ELSE Out("empty", "none", NO_MESSAGE_TEXT, f.mtime, m)
        ELSE Out("cached", "none", IF cached # <<>> THEN cached ELSE NO_MESSAGE_TEXT,
                 last, cached)

\* MessageReader.read_message: the exception that leaves it or the string
\* it returns, the cache it leaves, and how the read went ("cached": the
\* file was not opened)
read_message(f, last, cached) ==
    LET Out(msg, raised, result, l, c) ==
            [msg |-> msg, raised |-> raised, result |-> result, last_modified |-> l,
             cached_message |-> c]
        r == OpenAndReadline(f)
    IN  IF f.kind = "absent" THEN Out("notfound", "none", NOT_FOUND_TEXT, last, cached)
        ELSE IF f.mtime > last
        THEN IF r.raised \in OSErrors
                 THEN Out("error", "none", ErrorText(r.raised), last, cached)
             ELSE IF r.raised # "none" THEN Out("error", r.raised, <<>>, last, cached)
             ELSE LET m == strip(r.line)
                  IN  IF m # <<>> THEN Out("shown", "none", m, f.mtime, m)
                      ELSE Out("empty", "none", NO_MESSAGE_TEXT, f.mtime, m)
        ELSE Out("cached", "none", IF cached # <<>> THEN cached ELSE NO_MESSAGE_TEXT,
                 last, cached)

\* MainWindow.__init__ (from main): the reader, the labels, the timers
ConstructClock ==
    /\ program = "clock" /\ pc = "start"
    /\ last_modified' = InitialLastModified
    /\ cached_message' = <<>>
    /\ header_label' = CLOCK_HEADER_TEXT
    /\ clock_label' = <<>>
    /\ ip_label' \in IF times = {} THEN {"192.168.0.2"} ELSE NetworkUtils_get_ip_address
    /\ countdown_label' = <<"...">>
    /\ pc' = "running"
    /\ event' = Event("construct", FALSE, "none", "none", <<>>)
    /\ UNCHANGED <<program, flashcards_json, message_file, flashcards, current_index,
                   countdown_seconds, character_label, frame_label, ticks, refreshes,
                   times, now>>
    /\ UNCHANGED <<hanzi_vars, relay_vars>>

\* MainWindow.update_message, the message timer's slot
UpdateMessage ==
    /\ program = "clock" /\ pc = "running"
    /\ LET r == read_message(message_file, last_modified, cached_message)
       IN  /\ last_modified' = r.last_modified
           /\ cached_message' = r.cached_message
           /\ header_label' = IF r.raised = "none" THEN r.result ELSE header_label
           /\ pc' = after_slot(r.raised)
           /\ event' = Event("update_message", FALSE, r.msg, r.raised, r.result)
    /\ UNCHANGED <<program, flashcards_json, message_file, display_vars, ip_label,
                   clock_vars>>
    /\ UNCHANGED <<hanzi_vars, relay_vars>>

----------------------------------------------------------------------------
(* clock.py: CountdownTimer and update_clock.  An instant is given by the  *)
(* milliseconds from it to the target, negative once the target is past.   *)

SECS_PER_DAY == 24 * 60 * 60
MSECS_PER_DAY == SECS_PER_DAY * 1000

\* the time of day of Config.COUNTDOWN_TARGET, (2023, 9, 15, 9, 0), in
\* milliseconds since midnight
TARGET_TIME_OF_DAY == (9 * 60 + 0) * 60 * 1000

\* the instants one run draws from: whole days, and hours, minutes,
\* seconds and milliseconds at the ends and inside of their ranges
Durations ==
    {(((d * 24 + h) * 60 + m) * 60 + s) * 1000 + f :
        d \in 0..MaxDays, h \in {0, 1, 23}, m \in {0, 1, 59}, s \in {0, 1, 59},
        f \in {0, 1, 999}}

Instants == Durations \cup {0 - d : d \in Durations}

\* QDateTime.secsTo: msecsTo(other) / 1000, a C++ division of qint64
\* (it truncates towards zero)
secsTo(msecs) == IF msecs >= 0 THEN msecs \div 1000 ELSE 0 - ((0 - msecs) \div 1000)

\* QTime(0, 0, 0).addSecs(s): the seconds since midnight, wrapped to a day
addSecs(s) == s % SECS_PER_DAY

\* QTime.toString("h") in the place of "hh": no leading zero
toString_unpadded(n) == decimal(n)

\* QTime.toString("hh"), ("mm"), ("ss") of the field n: two digits
toString2(n) == <<Digits[(n \div 10) + 1], Digits[(n % 10) + 1]>>

\* QTime.hour(), minute(), second() of a time t in seconds since midnight
hour(t) == t \div 3600
minute(t) == (t % 3600) \div 60
second(t) == t % 60

COUNTDOWN_OVER_TEXT == <<"Countdown over!">>

\* a get_time_remaining that tests time_left < 0
get_time_remaining_lt(msecs) ==
    LET time_left == secsTo(msecs)
        days_left == time_left \div (24 * 60 * 60)
        time == addSecs(time_left - days_left * 24 * 60 * 60)
    IN  IF time_left < 0 THEN COUNTDOWN_OVER_TEXT
        ELSE decimal(days_left) \o <<" days, ">> \o toString2(hour(time)) \o <<" hrs, ">>
                 \o toString2(minute(time)) \o <<" mins, ">>
                 \o toString2(second(time)) \o <<" secs">>

\* CountdownTimer.get_time_remaining at an instant msecs before the target
get_time_remaining(msecs) ==
    LET time_left == secsTo(msecs)
        days_left == time_left \div (24 * 60 * 60)
        time == addSecs(time_left - days_left * 24 * 60 * 60)
    IN  IF time_left <= 0 THEN COUNTDOWN_OVER_TEXT
        ELSE decimal(days_left) \o <<" days, ">> \o toString2(hour(time)) \o <<" hrs, ">>
                 \o toString2(minute(time)) \o <<" mins, ">>
                 \o toString2(second(time)) \o <<" secs">>

\* QTime.currentTime() at that instant, in seconds since midnight (the
\* target is 09:00:00; a change of the UTC offset in between is left out)
currentTime(msecs) == ((TARGET_TIME_OF_DAY - msecs) % MSECS_PER_DAY) \div 1000

\* QTime.toString("hh:mm:ss")
toString_hhmmss(t) ==
    toString2(hour(t)) \o <<":">> \o toString2(minute(t)) \o <<":">> \o toString2(second(t))

\* MainWindow.update_clock, the clock timer's slot
UpdateClock ==
    /\ program = "clock" /\ pc = "running"
    /\ \E t \in times :
          /\ now' = t
          /\ clock_label' = toString_hhmmss(currentTime(t))
          /\ countdown_label' = get_time_remaining(t)
    /\ event' = Event("update_clock", FALSE, "none", "none", <<>>)
    /\ UNCHANGED <<program, pc, flashcards_json, message_file, flashcards, current_index,
                   countdown_seconds, header_label, ip_label, times, character_label,
                   frame_label, reader_vars, ticks, refreshes>>
    /\ UNCHANGED <<hanzi_vars, relay_vars>>

----------------------------------------------------------------------------
(* The environment of clock.py: message.txt is written, replaced, removed  *)
(* or made unreadable by other processes.  The reader sees the file only   *)
(* in update_message, so the changes between two reads count as one.       *)

FileChange ==
    /\ program = "clock" /\ pc = "running" /\ event.op # "file"
    /\ times = {}
    /\ message_file' \in FileStates(Mtimes) \ {message_file}
    /\ event' = [event EXCEPT !.op = "file"]
    /\ UNCHANGED <<program, pc, flashcards_json, display_vars, reader_vars, header_label,
                   ip_label, clock_vars>>
    /\ UNCHANGED <<hanzi_vars, relay_vars>>

----------------------------------------------------------------------------
(* hanzi_display.py: the terminal flashcard program.  shuffled_cards is a  *)
(* copy of the list that holds the same card objects in another order:     *)
(* each of its elements is the position in flashcards of the card it       *)
(* refers to.                                                              *)

None == JsonOther("null", 0)

\* load_flashcards: None when the file is missing or no JSON, or when
\* len() of the value raises (a number, null); else the value, of any type
hanzi_load_flashcards(doc) ==
    IF doc.kind \in {"missing", "invalid", "num", "null"} THEN None ELSE doc

\* random.shuffle of a list of n elements: the orders it can leave
shuffle(n) == {p \in SeqsUpTo(1..n, n) : Len(p) = n /\ \A i, j \in 1..n : p[i] = p[j] => i = j}

\* display_flashcard: the exception the card makes it raise (flashcard[
\* 'Hanzi'] and flashcard['Pinyin'] on a card without the key, or on an
\* element that is no dict), or "none"
display_flashcard(card) ==
    IF ~card.rec THEN "TypeError"
    ELSE IF Absent \in {card.Hanzi, card.Pinyin} THEN "KeyError"
    ELSE "none"

\* an index that moves on by two
next_card_index_skips(i, n) == (i + 2) % n

\* card_index = (card_index + 1) % len(shuffled_cards)
next_card_index(i, n) == (i + 1) % n

\* main up to the loop: load, return when there is nothing, copy, shuffle
HanziMain ==
    /\ program = "hanzi" /\ pc = "start"
    /\ LET v == hanzi_load_flashcards(flashcards_json)
       IN  /\ flashcards' = v
           /\ IF ~truthy(v)
              THEN pc' = "returned" /\ shuffled_cards' = <<>>
                   /\ event' = Event("main", FALSE, "none", "none", <<>>)
              ELSE IF v.kind = "str"
              THEN pc' = "exited" /\ shuffled_cards' = <<>>
                   /\ event' = Event("main", FALSE, "none", "AttributeError", <<>>)
              ELSE IF v.kind = "dict"
              THEN pc' = "running" /\ shuffled_cards' = <<>>
                   /\ event' = Event("main", FALSE, "none", "none", <<>>)
              ELSE /\ pc' = "running"
                   /\ shuffled_cards' \in shuffle(v.n)
                   /\ event' = Event("main", FALSE, "none", "none", <<>>)
    /\ card_index' = 0
    /\ UNCHANGED <<program, flashcards_json, message_file, current_index, countdown_seconds,
                   countdown_label, header_label, ip_label, clock_vars, character_label,
                   frame_label, reader_vars, shown, relay_vars, ticks, refreshes>>

\* one turn of main's loop: the card at card_index is displayed, the
\* countdown runs, card_index moves on; Ctrl-C during the countdown ends
\* the program
HanziLoop ==
    /\ program = "hanzi" /\ pc = "running" /\ Len(shown) < MaxDisplays
    /\ IF flashcards.kind = "dict"
       THEN /\ pc' = "exited"
            /\ event' = Event("loop", FALSE, "none", "KeyError", <<>>)
            /\ UNCHANGED <<shown, card_index>>
       ELSE LET ref == shuffled_cards[card_index + 1]
                raised == display_flashcard(flashcards.items[ref])
            IN  IF raised # "none"
                THEN /\ pc' = "exited"
                     /\ event' = Event("loop", FALSE, "none", raised, <<>>)
                     /\ UNCHANGED <<shown, card_index>>
                ELSE /\ shown' = Append(shown, ref)
                     /\ \E interrupted \in BOOLEAN :
                           IF interrupted
                           THEN /\ pc' = "returned"
                                /\ event' = Event("loop", FALSE, "none",
                                                  "KeyboardInterrupt", <<>>)
                                /\ UNCHANGED card_index
                           ELSE /\ pc' = "running"
                                /\ event' = Event("loop", FALSE, "none", "none", <<>>)
                                /\ card_index' =
                                      next_card_index(card_index, Len(shuffled_cards))
    /\ UNCHANGED <<program, flashcards_json, message_file, flashcards, current_index,
                   countdown_seconds, countdown_label, header_label, ip_label, clock_vars,
                   character_label, frame_label, reader_vars, shuffled_cards, relay_vars,
                   ticks, refreshes>>

----------------------------------------------------------------------------
(* The end of main() in characters.py and clock.py.  Neither script stops  *)
(* a timer or handles the close event: closing the window, the only one,   *)
(* makes QApplication quit, app.exec_() returns and sys.exit() ends the    *)
(* process with its timers.  A close request that comes after that finds   *)
(* no window.                                                              *)

\* a close that hides the window and leaves the event loop running
CloseKeepsRunning ==
    /\ program \in {"characters", "clock"} /\ pc = "running"
    /\ event' = [event EXCEPT !.op = "close"]
    /\ UNCHANGED <<program, pc, flashcards_json, message_file, display_vars, reader_vars,
                   header_label, ip_label, clock_vars>>
    /\ UNCHANGED <<hanzi_vars, relay_vars>>

Close ==
    /\ program \in {"characters", "clock"} /\ pc \in {"running", "closed"}
    /\ pc' = "closed"
    /\ event' = [event EXCEPT !.op = "close"]
    /\ UNCHANGED <<program, flashcards_json, message_file, display_vars, reader_vars,
                   header_label, ip_label, clock_vars>>
    /\ UNCHANGED <<hanzi_vars, relay_vars>>

----------------------------------------------------------------------------

Init ==
    /\ program \in {"characters", "clock", "hanzi"}
    /\ pc = "start"
    /\ flashcards_json \in
          IF program \in {"characters", "hanzi"} THEN FlashcardDocs
          ELSE {JsonOther("missing", 0)}
    /\ times \in IF program = "clock" THEN {{}, Instants} ELSE {{}}
    /\ message_file \in
          IF program = "clock" /\ times = {} THEN FileStates(Mtimes)
          ELSE {AbsentFile}
    /\ flashcards = JsonList(<<>>)
    /\ current_index = 0
    /\ countdown_seconds = interval
    /\ countdown_label = interval
    /\ header_label = <<>>
    /\ ip_label = ""
    /\ clock_label = <<>>
    /\ now = 0
    /\ character_label = ""
    /\ frame_label = ""
    /\ last_modified = InitialLastModified
    /\ cached_message = <<>>
    /\ shuffled_cards = <<>>
    /\ card_index = 0
    /\ shown = <<>>
    /\ relay = RelayIdle
    /\ written = {}
    /\ ticks = 0
    /\ refreshes = 0
    /\ event = NoEvent

Next ==
    \/ Construct
    \/ Tick
    \/ ConstructClock
    \/ UpdateMessage
    \/ UpdateClock
    \/ FileChange
    \/ Close
    \/ HanziMain
    \/ HanziLoop

Spec == Init /\ [][Next]_vars

----------------------------------------------------------------------------
(* The kiosk beside the chat relay (discord/test-listen-to-discord.py):    *)
(* message.txt does not exist at first and on_message alone writes it.     *)
(* on_message runs in another process, so a read of the kiosk can fall     *)
(* between its open(), which empties the file, and its close(), which      *)
(* flushes the text written (f.write of a text this short only fills the   *)
(* buffer of f).  A message of another author or channel is dropped and    *)
(* changes nothing.                                                        *)

\* the modification times a write can leave: the clock does not run
\* backwards, and two writes can fall into one tick of it; the character
\* display never looks at the time
WriteTimes ==
    IF program = "clock" THEN {t \in Mtimes : t >= message_file.mtime} ELSE {1}

\* on_message, up to f = open("message.txt", "w")
RelayOpen ==
    /\ pc = "running" /\ relay.pc = "idle" /\ Cardinality(written) < MaxMessages
    /\ \E content \in Contents, t \in WriteTimes :
          /\ relay' = [pc |-> "opened", content |-> strip(content)]
          /\ message_file' = TextFile(<<>>, t)
    /\ event' = [event EXCEPT !.op = "relay"]
    /\ UNCHANGED <<program, pc, flashcards_json, display_vars, reader_vars, header_label,
                   ip_label, clock_vars, hanzi_vars, written>>

\* on_message: f.write(message.content.strip()); f.close()
RelayClose ==
    /\ pc = "running" /\ relay.pc = "opened"
    /\ \E t \in WriteTimes :
          message_file' = TextFile(relay.content, IF relay.content = <<>>
                                                     THEN message_file.mtime ELSE t)
    /\ written' = written \cup {relay.content}
    /\ relay' = RelayIdle
    /\ event' = [event EXCEPT !.op = "relay"]
    /\ UNCHANGED <<program, pc, flashcards_json, display_vars, reader_vars, header_label,
                   ip_label, clock_vars, hanzi_vars>>

\* the character display beside the relay: its refresh finds message.txt
\* as the relay has left it
RelayConstruct == ConstructFinding({message_file})
RelayTick == TickFinding({message_file})

InitRelay ==
    /\ Init
    /\ program \in {"characters", "clock"}
    /\ program = "characters" => flashcards_json = JsonList(<<Card("H1", "p1")>>)
    /\ message_file = AbsentFile
    /\ times = {}

NextRelay ==
    \/ RelayConstruct
    \/ RelayTick
    \/ ConstructClock
    \/ UpdateMessage
    \/ RelayOpen
    \/ RelayClose

SpecRelay == InitRelay /\ [][NextRelay]_vars

----------------------------------------------------------------------------
(* Reference text operators for the properties, stated without recursion.  *)

Min(S) == CHOOSE x \in S : \A y \in S : x <= y
Max(S) == CHOOSE x \in S : \A y \in S : x >= y

\* the positions of the first line of c (its newline excluded) that hold a
\* character other than whitespace
Visible(c) ==
    LET newlines == {i \in 1..Len(c) : c[i] = "\n"}
        last == IF newlines = {} THEN Len(c) ELSE Min(newlines) - 1
    IN  {i \in 1..last : c[i] \notin Whitespace}

\* the first line of c without its leading and trailing whitespace
TrimmedFirstLine(c) ==
    IF Visible(c) = {} THEN <<>> ELSE SubSeq(c, Min(Visible(c)), Max(Visible(c)))

\* the first line of c without its trailing whitespace
RightTrimmedFirstLine(c) ==
    IF Visible(c) = {} THEN <<>> ELSE SubSeq(c, 1, Max(Visible(c)))

\* this step is a run of a handler of the window (the history names it)
HandlerStep ==
    event'.op \in {"construct", "tick", "update_message", "update_clock"} /\ vars' # vars

----------------------------------------------------------------------------
(* C1.  From Counting(interval) as construction leaves it, after exactly   *)
(* `interval` ticks exactly one refresh has fired and countdown_seconds    *)
(* is `interval` again.                                                    *)
C1_OneRefreshAfterIntervalTicks ==
    (program = "characters" /\ pc # "start" /\ ticks = interval)
        => (refreshes = 1 /\ countdown_seconds = interval)

(* C2.  A refresh that fails (the message read, or the flashcard pick)     *)
(* still resets countdown_seconds to the interval on that tick and leaves  *)
(* the scheduler running.                                                  *)
C2_FailedRefreshResetsCountdown ==
    (program = "characters" /\ event.op = "tick" /\ event.refresh
        /\ (event.raised # "none" \/ event.msg \in {"notfound", "error"}))
        => (countdown_seconds = interval /\ pc = "running")

(* C3 as claimed.  When the message read of a refresh fails, the displayed *)
(* message keeps the value it had, in the character display and in the     *)
(* clock window.                                                           *)
C3_FailedReadKeepsMessage ==
    [][(HandlerStep /\ event'.msg \in {"notfound", "error"})
          => header_label' = header_label]_vars

(* C3 as amended.  When the message read fails, the character display      *)
(* keeps the header text it had; the clock window shows what read_message  *)
(* returns, "Message file not found" or "Error reading message: ...", and  *)
(* keeps its header only when the error leaves read_message.               *)
C3_FailedReadKeepsOrShowsPlaceholder ==
    [][(HandlerStep /\ event'.msg \in {"notfound", "error"})
          => IF program = "characters" \/ event'.raised # "none"
                 THEN header_label' = header_label
             ELSE /\ header_label' = event'.result
                  /\ event'.result \in {NOT_FOUND_TEXT} \cup {ErrorText(e) : e \in OSErrors}]_vars

\* a refresh tick of the character display whose read failed, under a
\* message shown before
C3_Witness ==
    /\ program = "characters" /\ event.op = "tick" /\ event.refresh
    /\ event.msg = "error"
    /\ header_label # DEFAULT_HEADER_TEXT

(* C4.  The modification-time cache is only an optimisation: every         *)
(* read_message on an existing readable file returns what an uncached      *)
(* reader returns, the stripped first line of the current content or the   *)
(* empty-content placeholder.                                              *)
C4_CacheIsTransparent ==
    (program = "clock" /\ event.op = "update_message" /\ message_file.kind = "text")
        => /\ event.raised = "none"
           /\ event.result = IF TrimmedFirstLine(message_file.content) # <<>>
                                 THEN TrimmedFirstLine(message_file.content)
                             ELSE NO_MESSAGE_TEXT

(* C5.  read_message never lets an exception reach its caller.             *)
C5_ReadNeverRaises ==
    (program = "clock" /\ event.op = "update_message") => event.raised = "none"

(* C6 as claimed.  read_message on a missing file does not raise and       *)
(* returns the placeholder "no message available".                         *)
C6_MissingFileNoMessageAvailable ==
    (program = "clock" /\ event.op = "update_message" /\ message_file.kind = "absent")
        => (event.raised = "none" /\ event.result = <<"no message available">>)

(* C6 as amended.  read_message on a missing file does not raise and       *)
(* returns "Message file not found", whatever was read before, and the     *)
(* clock window shows it; _check_for_message on a missing file raises      *)
(* nothing and leaves the header text as it was.                           *)
C6_MissingFilePlaceholder ==
    [][(HandlerStep /\ event'.msg = "notfound")
          => IF program = "clock"
                 THEN /\ event'.raised = "none"
                      /\ event'.result = NOT_FOUND_TEXT
                      /\ header_label' = NOT_FOUND_TEXT
                      /\ UNCHANGED reader_vars
             ELSE header_label' = header_label]_vars

\* read_message found no file after it had read and cached a message
C6_Witness ==
    /\ program = "clock" /\ event.op = "update_message" /\ event.msg = "notfound"
    /\ message_file.kind = "absent"
    /\ cached_message # <<>>
    /\ header_label = NOT_FOUND_TEXT

(* C7 as claimed.  A read returns the first line of the file with its      *)
(* trailing whitespace removed and nothing else changed.                   *)
C7_FirstLineRightTrimmed ==
    (program = "clock" /\ event.op = "update_message" /\ message_file.kind = "text"
        /\ Visible(message_file.content) # {})
        => event.result = RightTrimmedFirstLine(message_file.content)

(* C7 as amended.  A read that opens the file takes its first line without *)
(* the leading and the trailing whitespace, and nothing of later lines.    *)
(* read_message (which opens the file when its modification time is newer  *)
(* than the last one read) caches that text and returns it, or "No message *)
(* available" when it is empty; _check_for_message shows it, or leaves the *)
(* header when it is empty.                                                *)
C7_FirstLineTrimmedBothSides ==
    /\ (program = "clock" /\ event.op = "update_message" /\ message_file.kind = "text"
           /\ event.msg # "cached")
          => LET t == TrimmedFirstLine(message_file.content)
             IN  /\ cached_message = t
                 /\ event.result = IF t # <<>> THEN t ELSE NO_MESSAGE_TEXT
                 /\ header_label = event.result
    /\ (program = "characters" /\ pc = "running")
          => \A c \in Contents :
                check_for_message(TextFile(c, 1), header_label)
                    = IF TrimmedFirstLine(c) # <<>> THEN TrimmedFirstLine(c)
                      ELSE header_label

\* read_message has read a file whose first line starts with whitespace and
\* is followed by more
C7_Witness ==
    /\ program = "clock" /\ event.op = "update_message" /\ event.msg = "shown"
    /\ message_file.kind = "text"
    /\ Len(message_file.content) = MaxLen
    /\ message_file.content[1] = " "
    /\ message_file.content[MaxLen] = "\n"
    /\ event.result = <<"a">>

(* C8.  With a non-empty loaded flashcard list of size N, current_index is *)
(* always in [0, N); every index of [0, N) can come out of each pick (the  *)
(* first one, in the constructor, and the one of every refresh tick), so   *)
(* none is excluded and the index shown can be drawn again.                *)
C8_PickInRangeAndUnrestricted ==
    /\ (program = "characters" /\ pc # "start" /\ flashcards.kind = "list"
           /\ flashcards.n > 0)
          => /\ current_index \in 0..(flashcards.n - 1)
             /\ (pc = "running" /\ ticks < MaxTicks /\ countdown_seconds <= 1)
                   => \A i \in 0..(flashcards.n - 1) :
                         ENABLED (Tick /\ current_index' = i)
    /\ (program = "characters" /\ pc = "start" /\ flashcards_json.kind = "list"
           /\ flashcards_json.n > 0)
          => \A i \in 0..(flashcards_json.n - 1) :
                ENABLED (Construct /\ current_index' = i)

\* a refresh tick has drawn the last index of a list of MaxCards cards
C8_Witness ==
    /\ program = "characters" /\ event.op = "tick" /\ event.refresh
    /\ flashcards.kind = "list" /\ flashcards.n = MaxCards
    /\ current_index = MaxCards - 1
    /\ event.raised = "none"
    /\ refreshes >= 2

\* a refresh tick of the character display, seen from its two states
RefreshTick == HandlerStep /\ event'.op = "tick" /\ event'.refresh

(* C9 as claimed.  With an empty store a refresh tick lets no error out    *)
(* and leaves the card index, the character, the pronunciation and the     *)
(* displayed message as they were.                                         *)
C9_EmptyStoreSkipsRefresh ==
    [][(RefreshTick /\ ~truthy(flashcards))
          => /\ event'.raised = "none"
             /\ UNCHANGED <<current_index, character_label, frame_label, header_label>>]_vars

(* C9 as amended.  With an empty store a refresh tick lets no error out,   *)
(* resets the countdown and leaves the card index, the character and the   *)
(* pronunciation as they were; the message is still read and, when its     *)
(* first line is not blank, shown.                                         *)
C9_EmptyStoreSkipsCardOnly ==
    [][(RefreshTick /\ ~truthy(flashcards))
          => /\ event'.raised = "none" /\ pc' = "running"
             /\ countdown_seconds' = interval
             /\ UNCHANGED <<current_index, character_label, frame_label>>
             /\ header_label' = IF event'.msg = "shown" THEN event'.result
                                ELSE header_label]_vars

\* a refresh tick with an empty store has put a new message in the header
C9_Witness ==
    /\ program = "characters" /\ event.op = "tick" /\ event.refresh
    /\ ~truthy(flashcards)
    /\ event.msg = "shown" /\ header_label = event.result
    /\ character_label = ""

\* flashcards.json is missing or is not a JSON array of card records
Malformed(doc) ==
    \/ doc.kind # "list"
    \/ \E k \in 1..Len(doc.items) :
          \/ ~doc.items[k].rec
          \/ NonString \in {doc.items[k].Hanzi, doc.items[k].Pinyin}

(* C10.  A missing or malformed flashcard source never yields a store that *)
(* is used: the window runs with an empty store, shows no card and raises  *)
(* nothing, or the program ends before any card is shown.                  *)
C10_MalformedSourceShowsNoCard ==
    (program = "characters" /\ pc # "start" /\ Malformed(flashcards_json))
        => /\ character_label = ""
           /\ pc = "running" => (flashcards = JsonList(<<>>) /\ event.raised = "none")

----------------------------------------------------------------------------
(* Reading a countdown label back: its fields as numbers. *)

DigitChars == {Digits[k] : k \in 1..Len(Digits)}
DigitValue(c) == CHOOSE k \in 0..9 : Digits[k + 1] = c

\* the number a sequence of digits writes
RECURSIVE DecimalValue(_)
DecimalValue(s) ==
    IF s = <<>> THEN 0
    ELSE 10 * DecimalValue(SubSeq(s, 1, Len(s) - 1)) + DigitValue(s[Len(s)])

\* l reads "<D> days, <HH> hrs, <MM> mins, <SS> secs", with D in decimal
\* and HH, MM, SS of two digits each
IsDuration(l) ==
    /\ Len(l) >= 11
    /\ LET n == Len(l) - 11
       IN  /\ \A k \in (1..(n + 1)) \cup {n + 3, n + 4, n + 6, n + 7, n + 9, n + 10} :
                 l[k] \in DigitChars
           /\ l[n + 2] = " days, " /\ l[n + 5] = " hrs, "
           /\ l[n + 8] = " mins, " /\ l[n + 11] = " secs"

DaysOf(l) == DecimalValue(SubSeq(l, 1, Len(l) - 10))
HoursOf(l) == DecimalValue(SubSeq(l, Len(l) - 8, Len(l) - 7))
MinutesOf(l) == DecimalValue(SubSeq(l, Len(l) - 5, Len(l) - 4))
SecondsOf(l) == DecimalValue(SubSeq(l, Len(l) - 2, Len(l) - 1))

\* update_clock has just run (`now` is the instant it read)
ClockUpdated == program = "clock" /\ event.op = "update_clock"

(* C11.  get_time_remaining returns "Countdown over!" at every instant at  *)
(* or after the target, the target itself included, and never a negative   *)
(* duration; exactly one second before the target it returns 0 days, 00    *)
(* hrs, 00 mins, 01 secs.                                                  *)
C11_ElapsedAtAndAfterTarget ==
    ClockUpdated
        => /\ now <= 0 => countdown_label = COUNTDOWN_OVER_TEXT
           /\ \A k \in 1..Len(countdown_label) : countdown_label[k] # "-"
           /\ now = 1000
                 => countdown_label = <<"0", " days, ", "0", "0", " hrs, ", "0", "0",
                                        " mins, ", "0", "1", " secs">>

\* update_clock has run at the very instant of the target
C11_Witness == ClockUpdated /\ now = 0 /\ countdown_label = COUNTDOWN_OVER_TEXT

(* C12 as claimed.  At every instant strictly before the target the label  *)
(* gives the whole seconds T left as days D >= 0, hours in 0..23, minutes  *)
(* in 0..59 and seconds in 0..59 with D*86400 + hours*3600 + minutes*60 +  *)
(* seconds = T, the hours, minutes and seconds in two digits.              *)
C12_DecomposesBeforeTarget ==
    (ClockUpdated /\ now > 0)
        => /\ IsDuration(countdown_label)
           /\ HoursOf(countdown_label) \in 0..23
           /\ MinutesOf(countdown_label) \in 0..59
           /\ SecondsOf(countdown_label) \in 0..59
           /\ DaysOf(countdown_label) * 86400 + HoursOf(countdown_label) * 3600
                 + MinutesOf(countdown_label) * 60 + SecondsOf(countdown_label)
                 = now \div 1000

(* C12 as amended.  At every instant at least one whole second before the  *)
(* target the label gives the whole seconds T left (the milliseconds       *)
(* dropped) as days, hours in 0..23, minutes in 0..59 and seconds in 0..59 *)
(* that add up to T, the hours, minutes and seconds in two digits; with    *)
(* less than a second left the label is "Countdown over!".                 *)
C12_DecomposesWholeSecondsBeforeTarget ==
    /\ (ClockUpdated /\ now >= 1000)
          => /\ IsDuration(countdown_label)
             /\ HoursOf(countdown_label) \in 0..23
             /\ MinutesOf(countdown_label) \in 0..59
             /\ SecondsOf(countdown_label) \in 0..59
             /\ DaysOf(countdown_label) * 86400 + HoursOf(countdown_label) * 3600
                   + MinutesOf(countdown_label) * 60 + SecondsOf(countdown_label)
                   = now \div 1000
    /\ (ClockUpdated /\ now > 0 /\ now < 1000) => countdown_label = COUNTDOWN_OVER_TEXT

\* update_clock has run MaxDays days, 23:59:59 and 999 milliseconds before
\* the target
C12_Witness ==
    /\ ClockUpdated
    /\ now = (((MaxDays * 24 + 23) * 60 + 59) * 60 + 59) * 1000 + 999
    /\ IsDuration(countdown_label)
    /\ DaysOf(countdown_label) = MaxDays
    /\ SubSeq(countdown_label, Len(countdown_label) - 9, Len(countdown_label))
          = <<" days, ", "2", "3", " hrs, ", "5", "9", " mins, ", "5", "9", " secs">>

(* C13.  Closing the window stops the scheduler for good: the process is   *)
(* over, and from then on no handler (_update_countdown, update_clock,     *)
(* update_message) runs and nothing of the state changes; a second close   *)
(* changes nothing either.                                                 *)
C13_CloseStopsEveryTimer ==
    [][/\ event'.op = "close" => pc' = "closed"
       /\ pc = "closed" => UNCHANGED vars]_vars

\* the window of the character display was closed one tick before a
\* refresh, and that of the clock after it had shown a message
C13_Witness ==
    /\ pc = "closed"
    /\ \/ program = "characters" /\ countdown_seconds = 1 /\ ticks < MaxTicks
       \/ program = "clock" /\ cached_message # <<>>
    /\ ENABLED Close
    /\ ~ENABLED Tick /\ ~ENABLED UpdateMessage /\ ~ENABLED UpdateClock

(* C14.  The scheduler of the character display has no terminal state:     *)
(* once it runs, and until the window is closed, a tick is enabled in      *)
(* every state and a refresh is at most `interval` ticks away.             *)
C14_TickAlwaysEnabled ==
    (program = "characters" /\ ticks >= 1 /\ ticks < MaxTicks /\ pc # "closed")
        => /\ ENABLED Tick
           /\ countdown_seconds \in 1..interval

\* this step is a run of _update_countdown
TickStep == HandlerStep /\ event'.op = "tick"

(* C15.  A tick whose decrement leaves countdown_seconds above zero        *)
(* changes the countdown and its label and nothing else: not the card      *)
(* index, the character, the pronunciation, the message or the address;    *)
(* no tick at all changes the loaded flashcards.                           *)
C15_PlainTickChangesCountdownOnly ==
    [][/\ (TickStep /\ countdown_seconds - 1 > 0)
             => /\ countdown_seconds' = countdown_seconds - 1
                /\ countdown_label' = countdown_seconds - 1
                /\ UNCHANGED <<current_index, character_label, frame_label, header_label,
                               ip_label, flashcards, refreshes, pc>>
       /\ TickStep => UNCHANGED <<flashcards, ip_label>>]_vars

\* a tick, not a refresh, under a card and a message that are shown
C15_Witness ==
    /\ program = "characters" /\ event.op = "tick" /\ ~event.refresh
    /\ countdown_seconds = 1 /\ countdown_label = 1
    /\ character_label = "H1" /\ header_label # DEFAULT_HEADER_TEXT
    /\ refreshes = 1 /\ ip_label = "127.0.0.1"

(* C16.  Whenever a tick handler of the character display has returned,    *)
(* countdown_seconds is in 1..interval; the label shows the value before   *)
(* the reset: after a refresh tick it reads "0s" while countdown_seconds   *)
(* is `interval` again, after any other tick it reads countdown_seconds.   *)
C16_CountdownInRangeLabelBeforeReset ==
    (program = "characters" /\ pc = "running")
        => /\ countdown_seconds \in 1..interval
           /\ event.op = "construct" => countdown_label = interval
           /\ event.op = "tick"
                 => IF event.refresh
                        THEN countdown_label = 0 /\ countdown_seconds = interval
                    ELSE countdown_label = countdown_seconds

\* the second refresh tick has returned
C16_Witness ==
    /\ program = "characters" /\ pc = "running"
    /\ event.op = "tick" /\ event.refresh /\ refreshes = 2
    /\ countdown_label = 0 /\ countdown_seconds = interval

\* the cards shown in the displays k .. k + n - 1
Window(k, n) == {shown[j] : j \in k..(k + n - 1)}

(* C17.  In hanzi_display.main with N >= 1 loaded cards, card_index is     *)
(* always in [0, N); the cards are shown in the order of shuffled_cards,   *)
(* over and over, and that order is a permutation of the loaded list, so   *)
(* every N consecutive displays show each card exactly once; the loaded    *)
(* list keeps its order.  With nothing loaded no card is shown and the     *)
(* program returns.                                                        *)
C17_ShuffledCycle ==
    (program = "hanzi" /\ pc # "start")
        => /\ flashcards = hanzi_load_flashcards(flashcards_json)
           /\ (flashcards.kind = "list" /\ flashcards.n >= 1)
                 => LET N == flashcards.n
                    IN  /\ card_index \in 0..(N - 1)
                        /\ Len(shuffled_cards) = N
                        /\ {shuffled_cards[k] : k \in 1..N} = 1..N
                        /\ \A k \in 1..Len(shown) :
                              shown[k] = shuffled_cards[((k - 1) % N) + 1]
                        /\ \A k \in 1..(Len(shown) - N + 1) :
                              /\ Window(k, N) = 1..N
                              /\ \A i, j \in k..(k + N - 1) : shown[i] = shown[j] => i = j
           /\ ~truthy(flashcards) => (shown = <<>> /\ pc = "returned")

\* MaxCards cards in another order than the loaded one, shown more than
\* twice over
C17_Witness ==
    /\ program = "hanzi" /\ pc = "running"
    /\ flashcards.kind = "list" /\ flashcards.n = MaxCards
    /\ shuffled_cards[1] = MaxCards
    /\ Len(shown) > 2 * MaxCards
    /\ card_index = Len(shown) % MaxCards

\* what a kiosk shows of the written text w: its first line, stripped
ShownOf(w) == TrimmedFirstLine(w)

\* the last handler read message.txt, and the relay has not touched the
\* file since
JustRead ==
    \/ event.op = "update_message"
    \/ event.op \in {"construct", "tick"} /\ event.refresh

(* C18.  With the relay's write of message.txt (open for writing, which    *)
(* truncates; write; close) interleaved anywhere with the kiosk's reads,   *)
(* the kiosk shows nothing torn: the header is the stripped first line of  *)
(* a text the relay has written, or what the kiosk shows before any        *)
(* message, and never the placeholder of an empty file unless the relay    *)
(* has written, or is writing, a text with an empty first line; and a read *)
(* that follows a completed write, with no write begun since, shows the    *)
(* text of that write.                                                     *)
C18_NoTornRead ==
    pc = "running"
        => /\ header_label \in
                 {ShownOf(w) : w \in written}
                     \cup {DEFAULT_HEADER_TEXT, CLOCK_HEADER_TEXT, NOT_FOUND_TEXT}
                     \cup {t \in {NO_MESSAGE_TEXT} :
                              \E w \in written \cup {relay.content : r \in {relay} \ {RelayIdle}} :
                                  ShownOf(w) = <<>>}
           /\ (JustRead /\ relay.pc = "idle" /\ written # {}
                  /\ ShownOf(message_file.content) # <<>>)
                 => header_label = ShownOf(message_file.content)

====
